---- MODULE Spec2Model ----
(***************************************************************************)
(* Model of the scheduling and query-parsing logic of the walter           *)
(* repository: the free-time sweep of EnhancedCalendarCLI.show_free_times, *)
(* the conflict check of the calendar clients (check_availability), the    *)
(* event-creation flows (add_event, _schedule_selected_event) and the      *)
(* natural-language parsers.                                               *)
(*                                                                         *)
(* Timestamps are the ISO-8601 strings the calendar collaborator returns.  *)
(* A timestamp is a record [k, m, z]:                                      *)
(*   k = "none"  the value is None (no dateTime and no date)               *)
(*   k = "date"  a date-only string "YYYY-MM-DD" (all-day event)           *)
(*   k = "dt"    "YYYY-MM-DDTHH:MM:SS" followed by the suffix z            *)
(*   m = the minutes from 00:00 of the queried date that the digits of the *)
(*       string spell (for "date": the midnight that starts that date)     *)
(*   z = "" (no offset), "Z", or "-04:00"                                  *)
(***************************************************************************)
EXTENDS Integers, Sequences, FiniteSets, TLC

VARIABLES
    pc,            \* "input": the command has not run yet; "done": it has
    events,        \* the event list the calendar collaborator returns
    free_result,   \* what show_free_times computed
    candidate,     \* the interval [start_time, end_time] a caller asks about
    avail_result,  \* what check_availability returned
    sched_result,  \* what the last event-creation flow did
    query,         \* the free-text request
    intent,        \* what the parser returned for it
    time_range,    \* the date range derived from the parsed time constraint
    listings,      \* success of each list_events call the availability checks made
    answers,       \* what the user typed at the prompts of the scheduling flow
    suggest,       \* the loop state and the outcome of suggest_event_time
    search,        \* the travel data of the found events and the enhanced list
    report         \* what the "conflicts" command did

vars == <<pc, events, free_result, candidate, avail_result, sched_result,
          query, intent, time_range, listings, answers, suggest,
          search, report>>

----------------------------------------------------------------------------
(* Bounds of the model *)

MaxEvents == 2
MaxWords == 3

(* Program constants *)

DayStartHour == 9
DayEndHour == 21
MinFreeMinutes == 30

MinutesPerDay == 24 * 60
start_of_day == DayStartHour * 60
end_of_day == DayEndHour * 60

(* The clock readings the modelled events use: two before the window,      *)
(* three inside it (two of them closer than the threshold), one just       *)
(* before its end and one after its end.                                   *)
TimeGrid ==
    { start_of_day - 60, start_of_day - 30, start_of_day + 60, start_of_day + 75,
      start_of_day + 180, end_of_day - 15, end_of_day + 30 }

FreeZones == {"", "Z"}

(* The clock readings and suffixes of the events the conflict check sees,  *)
(* and the candidates the callers build (naive isoformat() + "Z").         *)
AvailGrid == { 420, 600, 660, 720 }
AvailZones == {"", "Z", "-04:00"}
CandidateStarts == { 600, 660 }
CandidateDurations == { 60 }

(* The slot suggestion: preferred hours of the CLI, the step of the scan,   *)
(* the durations asked for (the last one is longer than the window) and    *)
(* the clock readings of the events the calendar holds.                    *)
PreferredStartHour == 9
PreferredEndHour == 17
SlotStepMinutes == 30
SuggestDurations == { 420, 435, 480, 510 }
SuggestGrid == { 540, 555, 1005, 1020 }

(* The travel data of the found events: the seconds the maps collaborator   *)
(* returns and the maximum travel minutes a request can ask for.           *)
TravelSeconds == { 0, 1800, 1801, 3600 }
MaxTravelMinutes == { 0, 30 }

(* Choices of the interactive scheduling flow *)
MorningHour == 10
AfternoonHour == 14
EveningHour == 18
QuickMinutes == 90
NormalMinutes == 150
LongMinutes == 210
SaturdayWeekday == 5
DaysPerWeek == 7

(* Inputs of the event-creation flows: the weekday of "now" (0 = Monday),  *)
(* a custom date and time, a custom duration.  Days count from the Monday  *)
(* of the current week.                                                    *)
Weekdays == 0..(DaysPerWeek - 1)
CustomDays == { 5 }
CustomTimes == { 11 * 60 }
CustomDurations == { 45 }

----------------------------------------------------------------------------
(* Timestamps *)

NoneTS == [k |-> "none", m |-> 0, z |-> ""]
DateTS(d) == [k |-> "date", m |-> d * MinutesPerDay, z |-> ""]
DateTimeTS(m, z) == [k |-> "dt", m |-> m, z |-> z]

\* Python truthiness of event.get('start'): None is falsy, a string truthy
Truthy(ts) == ts.k # "none"

\* 'T' in event_start
HasTime(ts) == ts.k = "dt"

\* rank of the suffix in character order: end of string < '+' < '-' < 'Z'
ZoneRank(z) == CASE z = "" -> 0 [] z = "-04:00" -> 2 [] z = "Z" -> 3

\* minutes to add to the digits to get UTC
UtcShift(z) == IF z = "-04:00" THEN 240 ELSE 0

\* str < str of two ISO strings (lexicographic order of fixed-width fields)
StrLess(a, b) ==
    LET da == a.m \div MinutesPerDay
        db == b.m \div MinutesPerDay
    IN  IF da # db THEN da < db
        ELSE IF a.k # b.k THEN a.k = "date"
        ELSE IF a.k = "date" THEN FALSE
        ELSE IF a.m # b.m THEN a.m < b.m
        ELSE ZoneRank(a.z) < ZoneRank(b.z)

\* datetime.fromisoformat(s.replace('Z', '+00:00')): the wall-clock reading
\* and whether the result is offset-aware
ParseIso(ts) == [m |-> ts.m, aware |-> ts.z # "", shift |-> UtcShift(ts.z)]

NaiveDT(m) == [m |-> m, aware |-> FALSE, shift |-> 0]

\* datetime comparison raises TypeError for a naive and an aware operand
Comparable(a, b) == a.aware = b.aware

\* a < b for two comparable datetimes
DtLess(a, b) == a.m + a.shift < b.m + b.shift

\* (b - a).total_seconds() / 60
MinutesBetween(a, b) == (b.m + b.shift) - (a.m + a.shift)

----------------------------------------------------------------------------
(* Events as list_events formats them *)

Event(s, e) == [start |-> s, end |-> e]

TimedEvents ==
    { Event(DateTimeTS(s, z), DateTimeTS(e, z)) :
        s \in TimeGrid, e \in TimeGrid, z \in FreeZones }

AllDayEvents == { Event(DateTS(0), DateTS(1)) }

MissingEvents == { Event(NoneTS, NoneTS) }

FreeEvents == TimedEvents \cup AllDayEvents \cup MissingEvents

SeqsUpTo(S, n) == UNION { [1..k -> S] : k \in 0..n }

----------------------------------------------------------------------------
(* sorted(events, key=lambda x: x.get('start', '')) *)

\* Any comparison with a None key raises TypeError; a list of two or more
\* elements compares every key at least once.
SortRaises(evs) == Len(evs) >= 2 /\ \E i \in 1..Len(evs) : ~Truthy(evs[i].start)

\* stable insertion: x goes after every element whose key is <= its key
RECURSIVE InsertSorted(_, _)
InsertSorted(s, x) ==
    IF s = <<>> THEN <<x>>
    ELSE IF StrLess(x.start, Head(s).start) THEN <<x>> \o s
    ELSE <<Head(s)>> \o InsertSorted(Tail(s), x)

RECURSIVE sorted_events(_)
sorted_events(evs) ==
    IF evs = <<>> THEN <<>>
    ELSE InsertSorted(sorted_events(SubSeq(evs, 1, Len(evs) - 1)), evs[Len(evs)])

----------------------------------------------------------------------------
(* The sweep of show_free_times *)

FreeSlot(a, b) == [start |-> a.m, end |-> b.m, duration |-> MinutesBetween(a, b)]

SweepInit ==
    [current_time |-> NaiveDT(start_of_day), free_slots |-> <<>>,
     cursor_trace |-> <<start_of_day>>, error |-> "none"]

\* one iteration of "for event in sorted_events"
SweepEvent(acc, event) ==
    IF acc.error # "none" THEN acc
    ELSE IF ~(Truthy(event.start) /\ Truthy(event.end)) THEN acc
    ELSE IF ~HasTime(event.start) THEN acc
    ELSE
        LET event_start_time == ParseIso(event.start)
            event_end_time == ParseIso(event.end)
            free_duration == MinutesBetween(acc.current_time, event_start_time)
        IN  IF ~Comparable(acc.current_time, event_start_time)
            THEN [acc EXCEPT !.error = "TypeError"]
            ELSE [acc EXCEPT
                    !.free_slots =
                        IF DtLess(acc.current_time, event_start_time)
                           /\ free_duration >= MinFreeMinutes
                        THEN Append(@, FreeSlot(acc.current_time, event_start_time))
                        ELSE @,
                    !.current_time = event_end_time,
                    !.cursor_trace = Append(@, event_end_time.m)]

RECURSIVE SweepAll(_, _)
SweepAll(acc, evs) ==
    IF evs = <<>> THEN acc ELSE SweepAll(SweepEvent(acc, Head(evs)), Tail(evs))

\* the trailing gap emitted without the 30-minute test
SweepTail_NoThreshold(acc) ==
    IF acc.error # "none" THEN acc
    ELSE IF ~Comparable(acc.current_time, NaiveDT(end_of_day))
    THEN [acc EXCEPT !.error = "TypeError"]
    ELSE IF DtLess(acc.current_time, NaiveDT(end_of_day))
         THEN [acc EXCEPT !.free_slots =
                    Append(@, FreeSlot(acc.current_time, NaiveDT(end_of_day)))]
         ELSE acc

\* "Check if there's free time after the last event"
SweepTail(acc) ==
    IF acc.error # "none" THEN acc
    ELSE IF ~Comparable(acc.current_time, NaiveDT(end_of_day))
    THEN [acc EXCEPT !.error = "TypeError"]
    ELSE LET free_duration == MinutesBetween(acc.current_time, NaiveDT(end_of_day))
         IN  IF DtLess(acc.current_time, NaiveDT(end_of_day))
                /\ free_duration >= MinFreeMinutes
             THEN [acc EXCEPT !.free_slots =
                        Append(@, FreeSlot(acc.current_time, NaiveDT(end_of_day)))]
             ELSE acc

\* the clock reading a printed "%I:%M %p" text spells: hour 1..12, AM or PM
ClockText(hour, minute, pm) == ((hour % 12) + (IF pm THEN 12 ELSE 0)) * 60 + minute

\* a span that ends at noon in place of 9:00 PM
completely_free_span_ToNoon ==
    [start |-> ClockText(9, 0, FALSE), end |-> ClockText(12, 0, TRUE)]

\* print(f"   Available: 9:00 AM - 9:00 PM")
completely_free_span ==
    [start |-> ClockText(9, 0, FALSE), end |-> ClockText(9, 0, TRUE)]

\* available: the spans printed for a day without events
NoFree ==
    [status |-> "idle", free_slots |-> <<>>, cursor_trace |-> <<>>, available |-> <<>>]

\* the outcome of show_free_times(date_str) for a listing result
show_free_times(date_ok, list_ok, evs) ==
    IF ~date_ok THEN [NoFree EXCEPT !.status = "invalid_date"]
    ELSE IF ~list_ok THEN [NoFree EXCEPT !.status = "list_failed"]
    ELSE IF evs = <<>>
    THEN [NoFree EXCEPT !.status = "completely_free",
                        !.available = <<completely_free_span>>]
    ELSE IF SortRaises(evs) THEN [NoFree EXCEPT !.status = "TypeError"]
    ELSE LET acc == SweepTail(SweepAll(SweepInit, sorted_events(evs)))
         IN  IF acc.error # "none"
             THEN [NoFree EXCEPT !.status = acc.error]
             ELSE [NoFree EXCEPT !.status = "slots",
                                 !.free_slots = acc.free_slots,
                                 !.cursor_trace = acc.cursor_trace]

----------------------------------------------------------------------------
(* check_availability of the calendar clients *)

AvailEvents ==
    { Event(DateTimeTS(s, z), DateTimeTS(e, z)) :
        s \in AvailGrid, e \in AvailGrid, z \in AvailZones }
    \cup AllDayEvents \cup MissingEvents

\* start_obj.isoformat() + "Z" and (start_obj + timedelta(minutes=d)).isoformat() + "Z"
Candidate(m, d) == [start |-> DateTimeTS(m, "Z"), end |-> DateTimeTS(m + d, "Z")]

Candidates == { Candidate(m, d) : m \in CandidateStarts, d \in CandidateDurations }

NoCandidate == [start |-> NoneTS, end |-> NoneTS]

\* "if (start_time < event_end and end_time > event_start)": str comparisons
Conflicting(start_time, end_time, event) ==
    StrLess(start_time, event.end) /\ StrLess(event.start, end_time)

\* the loop "for event in events" that appends to conflicts
RECURSIVE ConflictsOf(_, _, _)
ConflictsOf(start_time, end_time, evs) ==
    IF evs = <<>> THEN <<>>
    ELSE LET event == Head(evs)
             rest == ConflictsOf(start_time, end_time, Tail(evs))
         IN  IF Truthy(event.start) /\ Truthy(event.end)
                /\ Conflicting(start_time, end_time, event)
             THEN <<[start |-> event.start, end |-> event.end]>> \o rest
             ELSE rest

NoAvail ==
    [success |-> FALSE, error |-> "none", available |-> FALSE,
     conflicts |-> <<>>, available_slots |-> <<>>]

\* a failed listing read as a day without events
check_availability_FailOpen(start_time, end_time, list_ok, evs) ==
    LET seen == IF list_ok THEN evs ELSE <<>>
        conflicts == ConflictsOf(start_time, end_time, seen)
    IN  [success |-> TRUE, error |-> "none",
         available |-> Len(conflicts) = 0,
         conflicts |-> conflicts,
         available_slots |->
             IF seen = <<>> THEN <<[start |-> start_time, end |-> end_time]>>
             ELSE <<>>]

\* On a failed listing the listing's own result is returned: it carries
\* "success" and "error" only (available and conflicts are absent keys).
check_availability(start_time, end_time, list_ok, evs) ==
    IF ~list_ok THEN [NoAvail EXCEPT !.error = "list_failed"]
    ELSE LET conflicts == ConflictsOf(start_time, end_time, evs)
         IN  [success |-> TRUE, error |-> "none",
              available |-> Len(conflicts) = 0,
              conflicts |-> conflicts,
              available_slots |->
                  IF evs = <<>> THEN <<[start |-> start_time, end |-> end_time]>>
                  ELSE <<>>]

----------------------------------------------------------------------------
(* EnhancedCalendarCLI.check_conflicts: the "conflicts" command *)

\* Python values of the two types the command adds
StrValue(ts) == [type |-> "str", ts |-> ts, m |-> 0]
DateTimeValue(m) == [type |-> "datetime", ts |-> NoneTS, m |-> m]

\* v.isoformat() + "Z"
isoformat_Z(v) == StrValue(DateTimeTS(v.m, "Z"))

\* v + timedelta(minutes=minutes): defined for a datetime, TypeError for a str
plus_timedelta(v, minutes) ==
    IF v.type = "datetime"
    THEN [error |-> "none", value |-> DateTimeValue(v.m + minutes)]
    ELSE [error |-> "TypeError", value |-> v]

NoReport ==
    [status |-> "idle", args_ok |-> FALSE, start |-> 0, duration_minutes |-> 0,
     slot |-> NoCandidate, checked |-> FALSE, conflicts |-> <<>>]

\* status: "value_error" is the handled ValueError of strptime; "TypeError"
\* leaves the command, since only ValueError is caught
check_conflicts(args_ok, day, time, duration_minutes, list_ok, evs) ==
    LET base == [NoReport EXCEPT !.args_ok = args_ok,
                                 !.start = day * MinutesPerDay + time,
                                 !.duration_minutes = duration_minutes]
        start_time == isoformat_Z(DateTimeValue(day * MinutesPerDay + time))
        sum == plus_timedelta(start_time, duration_minutes)
        end_time == isoformat_Z(sum.value)
        result == check_availability(start_time.ts, end_time.ts, list_ok, evs)
        checked == [base EXCEPT !.slot = [start |-> start_time.ts, end |-> end_time.ts],
                                !.checked = TRUE,
                                !.conflicts = result.conflicts]
    IN  IF ~args_ok THEN [base EXCEPT !.status = "value_error"]
        ELSE IF sum.error # "none" THEN [base EXCEPT !.status = sum.error]
        ELSE IF ~result.success THEN [checked EXCEPT !.status = "check_failed"]
        ELSE IF result.available THEN [checked EXCEPT !.status = "no_conflicts"]
        ELSE [checked EXCEPT !.status = "conflicts"]

----------------------------------------------------------------------------
(* GoogleCalendarClient.suggest_event_time *)

\* a missing "available" key read as available
get_available_DefaultTrue(availability, default) ==
    IF availability.success THEN availability.available ELSE TRUE

\* availability.get("available", default): the key is there in a successful
\* result only
get_available(availability, default) ==
    IF availability.success THEN availability.available ELSE default

\* checks: the slot and the result of every availability check of the scan
NoSuggest ==
    [status |-> "idle", duration_minutes |-> 0, current_time |-> 0,
     time_slots |-> <<>>, checks |-> <<>>]

preferred_start == PreferredStartHour * 60
preferred_end == PreferredEndHour * 60

\* "while current_time + timedelta(minutes=duration_minutes) <= end_of_day"
slot_fits(st) == st.current_time + st.duration_minutes <= preferred_end

\* one pass of the loop body for the availability the check returned
suggest_slot(st, availability) ==
    LET slot == Candidate(st.current_time, st.duration_minutes)
    IN  [st EXCEPT
            !.time_slots = IF get_available(availability, FALSE)
                           THEN Append(@, slot) ELSE @,
            !.checks = Append(@, [slot |-> slot, availability |-> availability]),
            !.current_time = @ + SlotStepMinutes]

----------------------------------------------------------------------------
(* The event-creation flows: EnhancedCalendarCLI.add_event and             *)
(* NaturalLanguageCalendarCLI._schedule_selected_event                     *)

NoSched ==
    [flow |-> "none", stage |-> "idle", check_success |-> FALSE,
     check_available |-> FALSE, asked |-> FALSE, proceed |-> "",
     create_called |-> FALSE, created |-> FALSE, slot |-> NoCandidate]

\* nothing was typed
NoAnswers ==
    [ weekday |-> 0, date_choice |-> "", date_str |-> [ok |-> FALSE, day |-> 0],
      time_choice |-> "", time_str |-> [ok |-> FALSE, min |-> 0],
      duration_choice |-> "", duration_input |-> [ok |-> FALSE, val |-> 0],
      confirm |-> "", proceed |-> "" ]

\* "Check for conflicts first" ... "Create the event": the part the two flows
\* share line for line.  proceed is the answer to "proceed anyway? (y/N)".
CheckThenCreate(flow, slot, list_ok, evs, proceed, create_ok) ==
    LET conflict_result == check_availability(slot.start, slot.end, list_ok, evs)
        base == [NoSched EXCEPT !.flow = flow, !.slot = slot,
                                !.check_success = conflict_result.success,
                                !.check_available = conflict_result.available]
    IN  IF conflict_result.success /\ ~conflict_result.available
        THEN IF proceed # "y"
             THEN [base EXCEPT !.stage = "cancelled", !.asked = TRUE, !.proceed = proceed]
             ELSE [base EXCEPT !.stage = "create", !.asked = TRUE, !.proceed = proceed,
                               !.create_called = TRUE, !.created = create_ok]
        ELSE [base EXCEPT !.stage = "create", !.create_called = TRUE,
                          !.created = create_ok]

\* add_event(title, date_str, time_str, duration_minutes); a date or time
\* strptime rejects ends the command in the ValueError handler
add_event(args_ok, day, time, duration_minutes, list_ok, evs, proceed, create_ok) ==
    IF ~args_ok THEN [NoSched EXCEPT !.flow = "add_event", !.stage = "value_error"]
    ELSE CheckThenCreate("add_event",
                         Candidate(day * MinutesPerDay + time, duration_minutes),
                         list_ok, evs, proceed, create_ok)

\* days_until_saturday = (5 - now.weekday()) % 7
days_until_saturday(weekday) == (SaturdayWeekday - weekday) % DaysPerWeek

\* the date of the 'saturday' and 'sunday' choices, in days from this Monday
SaturdayDate(weekday) == weekday + days_until_saturday(weekday)
SundayDate(weekday) == weekday + days_until_saturday(weekday) + 1

\* the flow without the question "Does this look right?"
schedule_selected_event_NoConfirm(in, list_ok, evs, create_ok) ==
    LET flow == "schedule_selected_event"
        stop(stage) == [NoSched EXCEPT !.flow = flow, !.stage = stage]
        date_str ==
            CASE in.date_choice = "saturday" -> [ok |-> TRUE, day |-> SaturdayDate(in.weekday)]
              [] in.date_choice = "sunday" -> [ok |-> TRUE, day |-> SundayDate(in.weekday)]
              [] OTHER -> in.date_str
        time_str ==
            CASE in.time_choice = "morning" -> [ok |-> TRUE, min |-> MorningHour * 60]
              [] in.time_choice = "afternoon" -> [ok |-> TRUE, min |-> AfternoonHour * 60]
              [] in.time_choice = "evening" -> [ok |-> TRUE, min |-> EveningHour * 60]
              [] OTHER -> in.time_str
        duration_minutes ==
            CASE in.duration_choice = "quick" -> QuickMinutes
              [] in.duration_choice = "normal" -> NormalMinutes
              [] in.duration_choice = "long" -> LongMinutes
              [] OTHER -> in.duration_input.val
    IN  IF in.date_choice \notin {"saturday", "sunday", "custom"}
        THEN stop("invalid_date_choice")
        ELSE IF in.time_choice \notin {"morning", "afternoon", "evening", "custom"}
        THEN stop("invalid_time_choice")
        ELSE IF in.duration_choice \notin {"quick", "normal", "long", "custom"}
        THEN stop("invalid_duration_choice")
        ELSE IF in.duration_choice = "custom" /\ ~in.duration_input.ok
        THEN stop("invalid_duration")
        ELSE IF ~date_str.ok \/ ~time_str.ok THEN stop("error")
        ELSE CheckThenCreate(flow,
                             Candidate(date_str.day * MinutesPerDay + time_str.min,
                                       duration_minutes),
                             list_ok, evs, in.proceed, create_ok)

\* in: the answers typed at the prompts of _schedule_selected_event
schedule_selected_event(in, list_ok, evs, create_ok) ==
    LET flow == "schedule_selected_event"
        stop(stage) == [NoSched EXCEPT !.flow = flow, !.stage = stage]
        date_str ==
            CASE in.date_choice = "saturday" -> [ok |-> TRUE, day |-> SaturdayDate(in.weekday)]
              [] in.date_choice = "sunday" -> [ok |-> TRUE, day |-> SundayDate(in.weekday)]
              [] OTHER -> in.date_str
        time_str ==
            CASE in.time_choice = "morning" -> [ok |-> TRUE, min |-> MorningHour * 60]
              [] in.time_choice = "afternoon" -> [ok |-> TRUE, min |-> AfternoonHour * 60]
              [] in.time_choice = "evening" -> [ok |-> TRUE, min |-> EveningHour * 60]
              [] OTHER -> in.time_str
        duration_minutes ==
            CASE in.duration_choice = "quick" -> QuickMinutes
              [] in.duration_choice = "normal" -> NormalMinutes
              [] in.duration_choice = "long" -> LongMinutes
              [] OTHER -> in.duration_input.val
    IN  IF in.date_choice \notin {"saturday", "sunday", "custom"}
        THEN stop("invalid_date_choice")
        ELSE IF in.time_choice \notin {"morning", "afternoon", "evening", "custom"}
        THEN stop("invalid_time_choice")
        ELSE IF in.duration_choice \notin {"quick", "normal", "long", "custom"}
        THEN stop("invalid_duration_choice")
        ELSE IF in.duration_choice = "custom" /\ ~in.duration_input.ok
        THEN stop("invalid_duration")
        ELSE IF in.confirm # "y" THEN stop("not_confirmed")
        ELSE IF ~date_str.ok \/ ~time_str.ok THEN stop("error")
        ELSE CheckThenCreate(flow,
                             Candidate(date_str.day * MinutesPerDay + time_str.min,
                                       duration_minutes),
                             list_ok, evs, in.proceed, create_ok)

\* the listing outcome, when the flow got as far as the conflict check
listed(result, list_ok) ==
    IF result.stage \in {"create", "cancelled"} THEN <<list_ok>> ELSE <<>>

\* create_event stores the interval; the calendar then lists it
calendar_after(evs, result) ==
    IF result.created THEN Append(evs, Event(result.slot.start, result.slot.end))
    ELSE evs

----------------------------------------------------------------------------
(* Strings and the regular-expression pieces the parsers use *)

None == "<None>"

Char(s, i) == SubSeq(s, i, i)

Min(S) == CHOOSE x \in S : \A y \in S : x <= y
Max(S) == CHOOSE x \in S : \A y \in S : x >= y

UpperChars == "ABCDEFGHIJKLMNOPQRSTUVWXYZ"
LowerChars == "abcdefghijklmnopqrstuvwxyz"

LowerOf == [i \in 1..Len(UpperChars) |-> Char(LowerChars, i)]
UpperIndex == { <<Char(UpperChars, i), i>> : i \in 1..Len(UpperChars) }
UpperSet == { p[1] : p \in UpperIndex }

LowerChar(c) ==
    IF c \in UpperSet THEN LowerOf[(CHOOSE p \in UpperIndex : p[1] = c)[2]] ELSE c

\* str.lower(), character by character
RECURSIVE lower(_)
lower(s) ==
    IF Len(s) <= 1 THEN LowerChar(s)
    ELSE lower(SubSeq(s, 1, Len(s) \div 2)) \o lower(SubSeq(s, Len(s) \div 2 + 1, Len(s)))

\* \s
IsSpace(c) == c \in {" ", "\t", "\n"}

\* str.strip()
RECURSIVE strip(_)
strip(s) ==
    IF s = "" THEN ""
    ELSE IF IsSpace(Char(s, 1)) THEN strip(SubSeq(s, 2, Len(s)))
    ELSE IF IsSpace(Char(s, Len(s))) THEN strip(SubSeq(s, 1, Len(s) - 1))
    ELSE s

\* t occurs in s at position i
StartsAt(s, t, i) == i >= 1 /\ i + Len(t) - 1 <= Len(s) /\ SubSeq(s, i, i + Len(t) - 1) = t

\* "t in s" for strings
Contains(s, t) == \E i \in 1..(Len(s) - Len(t) + 1) : StartsAt(s, t, i)

\* length of the run of whitespace that starts at position j
RECURSIVE WsRun(_, _)
WsRun(s, j) == IF j <= Len(s) /\ IsSpace(Char(s, j)) THEN 1 + WsRun(s, j + 1) ELSE 0

\* [^,\n] at every position of c..e
NoCommaRun(s, c, e) == \A k \in c..e : Char(s, k) \notin {",", "\n"}

NoMatch == [matched |-> FALSE, group |-> ""]
Match(g) == [matched |-> TRUE, group |-> g]

\* r matches \s+word to its end
WsThen(r, word) ==
    /\ Len(r) > Len(word)
    /\ SubSeq(r, Len(r) - Len(word) + 1, Len(r)) = word
    /\ \A k \in 1..(Len(r) - Len(word)) : IsSpace(Char(r, k))

\* r matches \s+new\s+york to its end
WsNewYork(r) ==
    \E a \in 1..Len(r) :
        /\ \A k \in 1..a : IsSpace(Char(r, k))
        /\ StartsAt(r, "new", a + 1)
        /\ WsThen(SubSeq(r, a + 4, Len(r)), "york")

\* r matches (?:\s+new\s+york|\s+nyc|\s+ny)?$
TailOK(r) == r = "" \/ WsNewYork(r) \/ WsThen(r, "nyc") \/ WsThen(r, "ny")

\* ([^,\n]+?)(?:\s+new\s+york|\s+nyc|\s+ny)?$ from position c: the lazy group
\* takes the fewest characters after which the rest matches
LazyCaptureAt(q, c) ==
    LET es == { e \in c..Len(q) : NoCommaRun(q, c, e) /\ TailOK(SubSeq(q, e + 1, Len(q))) }
    IN  IF es = {} THEN NoMatch ELSE Match(SubSeq(q, c, Min(es)))

\* ([^,\n]+) from position c: the greedy group runs to the next comma
GreedyCaptureAt(q, c) ==
    LET es == { e \in c..Len(q) : NoCommaRun(q, c, e) }
    IN  IF es = {} THEN NoMatch ELSE Match(SubSeq(q, c, Max(es)))

\* prep\s+GROUP tried at position i; \s+ is greedy and gives whitespace back
\* only when the group cannot match otherwise
PrepAt(q, prep, i, lazy) ==
    IF ~StartsAt(q, prep, i) THEN NoMatch
    ELSE LET j == i + Len(prep)
             cap(c) == IF lazy THEN LazyCaptureAt(q, c) ELSE GreedyCaptureAt(q, c)
             cs == { c \in (j + 1)..(j + WsRun(q, j)) : cap(c).matched }
         IN  IF cs = {} THEN NoMatch ELSE cap(Max(cs))

\* re.search of prep\s+GROUP: the leftmost position that matches
PrepSearch(q, prep, lazy) ==
    LET ps == { i \in 1..Len(q) : PrepAt(q, prep, i, lazy).matched }
    IN  IF ps = {} THEN NoMatch ELSE PrepAt(q, prep, Min(ps), lazy)

\* re.search of ([^,\n]*name[^,\n]*): the comma-free stretch around the first
\* occurrence of name
SegmentSearch(q, name) ==
    LET ps == { i \in 1..Len(q) : StartsAt(q, name, i) }
    IN  IF ps = {} THEN NoMatch
        ELSE LET i == Min(ps)
                 a == Min({ c \in 1..i : NoCommaRun(q, c, i) })
                 e == Max({ d \in i..Len(q) : NoCommaRun(q, i, d) })
             IN  Match(SubSeq(q, a, e))

\* re.search of first\s+seconds? : group(0) of the leftmost match
TwoWordAt(q, first, second, i) ==
    LET j == i + Len(first)
        w == WsRun(q, j)
        k == j + w + Len(second)
    IN  IF StartsAt(q, first, i) /\ w >= 1 /\ StartsAt(q, second, j + w)
        THEN Match(SubSeq(q, i, IF StartsAt(q, "s", k) THEN k ELSE k - 1))
        ELSE NoMatch

TwoWordSearch(q, first, second) ==
    LET ps == { i \in 1..Len(q) : TwoWordAt(q, first, second, i).matched }
    IN  IF ps = {} THEN NoMatch ELSE TwoWordAt(q, first, second, Min(ps))

Digits == "0123456789"
DigitSet == { Char(Digits, i) : i \in 1..Len(Digits) }

\* \d on the characters of the modelled requests
IsDigit(c) == c \in DigitSet

\* length of the run of digits that starts at position j
DigitRun(s, j) ==
    LET stops == { k \in j..Len(s) : ~IsDigit(Char(s, k)) }
    IN  IF j > Len(s) THEN 0
        ELSE IF stops = {} THEN Len(s) + 1 - j
        ELSE Min(stops) - j

\* a run of digits starts at position i
RunStart(s, i) == IsDigit(Char(s, i)) /\ (i = 1 \/ ~IsDigit(Char(s, i - 1)))

\* the position after word at i, 0 when word is not there
AfterWord(q, word, i) == IF StartsAt(q, word, i) THEN i + Len(word) ELSE 0

\* the position after \s+ at j, 0 when there is no whitespace
AfterWs1(q, j) == IF j > 0 /\ WsRun(q, j) >= 1 THEN j + WsRun(q, j) ELSE 0

\* w1\s+w2\s+...wn from position i: the position after wn, 0 when it fails
RECURSIVE WordsEnd(_, _, _)
WordsEnd(q, words, i) ==
    IF ~StartsAt(q, Head(words), i) THEN 0
    ELSE IF Len(words) = 1 THEN i + Len(Head(words))
    ELSE WordsEnd(q, Tail(words), AfterWs1(q, i + Len(Head(words))))

\* w1\s+...wn\s+ from position i: the position after the last \s+
AfterPhrase(q, words, i) ==
    IF words = <<>> THEN i ELSE AfterWs1(q, WordsEnd(q, words, i))

\* re.search of w1\s+...wn: group(0) of the leftmost match
PhraseSearch(q, words) ==
    LET ps == { i \in 1..Len(q) : WordsEnd(q, words, i) > 0 }
    IN  IF ps = {} THEN NoMatch
        ELSE Match(SubSeq(q, Min(ps), WordsEnd(q, words, Min(ps)) - 1))

\* mins?|minutes?
MinuteUnits == <<"min", "mins", "minute", "minutes">>
\* away|travel|commute
CommuteWords == <<"away", "travel", "commute">>

\* the unit after the number, from position u: min... alone, or one of the
\* units followed by \s+(?:away|travel|commute)
UnitAt(q, u, commute) ==
    IF ~commute THEN StartsAt(q, "min", u)
    ELSE \E a \in 1..Len(MinuteUnits) : \E b \in 1..Len(CommuteWords) :
            /\ StartsAt(q, MinuteUnits[a], u)
            /\ AfterWs1(q, u + Len(MinuteUnits[a])) > 0
            /\ StartsAt(q, CommuteWords[b], AfterWs1(q, u + Len(MinuteUnits[a])))

\* PREFIX(\d+)\s*UNIT (gap 0) or PREFIX(\d+)\s+UNIT (gap 1) tried at
\* position i; the group is the whole run of digits
MinutesAt(q, pat, i) ==
    LET d == AfterPhrase(q, pat.prefix, i)
        n == DigitRun(q, d)
        w == WsRun(q, d + n)
    IN  IF d > 0 /\ n >= 1 /\ w >= pat.gap /\ UnitAt(q, d + n + w, pat.commute)
        THEN Match(SubSeq(q, d, d + n - 1))
        ELSE NoMatch

\* re.search: the leftmost match; a pattern that begins with (\d+) matches
\* leftmost at the start of a run of digits
MinutesSearch(q, pat) ==
    LET ps == { i \in 1..Len(q) :
                  /\ pat.prefix # <<>> \/ RunStart(q, i)
                  /\ MinutesAt(q, pat, i).matched }
    IN  IF ps = {} THEN NoMatch ELSE MinutesAt(q, pat, Min(ps))

\* prep\s+(m1|m2|...) tried at position i: the first alternative that fits
RECURSIVE FirstWordAt(_, _, _)
FirstWordAt(q, words, a) ==
    IF words = <<>> THEN NoMatch
    ELSE IF StartsAt(q, Head(words), a) THEN Match(Head(words))
    ELSE FirstWordAt(q, Tail(words), a)

TransportAt(q, pat, i) ==
    IF ~StartsAt(q, pat.prep, i) THEN NoMatch
    ELSE FirstWordAt(q, pat.modes, AfterWs1(q, i + Len(pat.prep)))

TransportSearch(q, pat) ==
    LET ps == { i \in 1..Len(q) : TransportAt(q, pat, i).matched }
    IN  IF ps = {} THEN NoMatch ELSE TransportAt(q, pat, Min(ps))

\* the end of the comma-free stretch that starts at c
StretchEnd(q, c) == Max({ e \in c..Len(q) : NoCommaRun(q, c, e) })

\* ([^,\n]+?)(?:\s+street|\s+avenue|...) from position c: the fewest
\* characters after which \s+ and one of the words follow
BeforeWordAt(q, c, words) ==
    LET es == { e \in c..Len(q) :
                  /\ NoCommaRun(q, c, e)
                  /\ WsRun(q, e + 1) >= 1
                  /\ \E k \in 1..Len(words) : StartsAt(q, words[k], e + 1 + WsRun(q, e + 1)) }
    IN  IF es = {} THEN NoMatch ELSE Match(SubSeq(q, c, Min(es)))

\* ([^,\n]+?word[^,\n]*) from position c: the comma-free stretch, when word
\* occurs in it after at least one character
AroundWordAt(q, c, word) ==
    IF c > Len(q) \/ ~NoCommaRun(q, c, c) THEN NoMatch
    ELSE IF \E k \in (c + 1)..StretchEnd(q, c) :
                StartsAt(q, word, k) /\ k + Len(word) - 1 <= StretchEnd(q, c)
         THEN Match(SubSeq(q, c, StretchEnd(q, c)))
         ELSE NoMatch

\* the group of a starting-point pattern from position c
CaptureAt(q, c, pat) ==
    IF pat.cap = "greedy" THEN GreedyCaptureAt(q, c)
    ELSE IF pat.cap = "before" THEN BeforeWordAt(q, c, pat.words)
    ELSE AroundWordAt(q, c, pat.words[1])

\* PREFIX prep\s+GROUP tried at position i
StartAt(q, pat, i) ==
    LET p == AfterPhrase(q, pat.prefix, i)
        j == p + Len(pat.prep)
        cs == { c \in (j + 1)..(j + WsRun(q, j)) : CaptureAt(q, c, pat).matched }
    IN  IF ~StartsAt(q, pat.prep, p) \/ cs = {} THEN NoMatch
        ELSE CaptureAt(q, Max(cs), pat)

StartSearch(q, pat) ==
    LET ps == { i \in 1..Len(q) : StartAt(q, pat, i).matched }
    IN  IF ps = {} THEN NoMatch ELSE StartAt(q, pat, Min(ps))

----------------------------------------------------------------------------
(* NaturalLanguageParser of enhanced_event_search.py *)

event_keywords ==
    << [type |-> "vintage",
        keywords |-> <<"vintage", "antique", "retro", "flea market", "thrift", "collector">>],
       [type |-> "food",
        keywords |-> <<"food", "restaurant", "cafe", "bar", "festival", "truck", "dining">>],
       [type |-> "art",
        keywords |-> <<"art", "gallery", "museum", "exhibition", "show", "performance">>],
       [type |-> "music",
        keywords |-> <<"music", "concert", "band", "dj", "live", "performance">>],
       [type |-> "fitness",
        keywords |-> <<"fitness", "yoga", "gym", "workout", "sports", "athletic">>],
       [type |-> "culture",
        keywords |-> <<"culture", "cultural", "heritage", "tradition", "festival">>] >>

\* any(keyword in query for keyword in keywords)
AnyKeyword(q, keywords) == \E k \in 1..Len(keywords) : Contains(q, keywords[k])

\* a loop that keeps going after a match, so that the last group wins
RECURSIVE EventTypeFrom_LastWins(_, _)
EventTypeFrom_LastWins(groups, q) ==
    IF groups = <<>> THEN "events"
    ELSE LET later == EventTypeFrom_LastWins(Tail(groups), q)
         IN  IF later # "events" THEN later
             ELSE IF AnyKeyword(q, Head(groups).keywords) THEN Head(groups).type
             ELSE "events"

\* the loop over event_keywords.items(), in insertion order
RECURSIVE EventTypeFrom(_, _)
EventTypeFrom(groups, q) ==
    IF groups = <<>> THEN "events"
    ELSE IF AnyKeyword(q, Head(groups).keywords) THEN Head(groups).type
    ELSE EventTypeFrom(Tail(groups), q)

_extract_event_type(q) == EventTypeFrom(event_keywords, q)

nyc_areas == <<"manhattan", "brooklyn", "queens", "bronx", "staten island", "nyc", "new york">>

location_patterns == <<"in", "near", "around", "at">>

RECURSIVE FirstArea(_, _)
FirstArea(areas, q) ==
    IF areas = <<>> THEN None
    ELSE IF Contains(q, Head(areas)) THEN Head(areas)
    ELSE FirstArea(Tail(areas), q)

RECURSIVE FirstPrep(_, _, _)
FirstPrep(preps, q, lazy) ==
    IF preps = <<>> THEN NoMatch
    ELSE LET m == PrepSearch(q, Head(preps), lazy)
         IN  IF m.matched THEN m ELSE FirstPrep(Tail(preps), q, lazy)

_extract_location(q) ==
    LET area == FirstArea(nyc_areas, q)
        match == FirstPrep(location_patterns, q, TRUE)
    IN  IF area # None THEN area
        ELSE IF match.matched THEN strip(match.group)
        ELSE "nyc"

\* time_patterns: the travel-time limit in minutes
time_patterns ==
    << [prefix |-> <<"within">>, gap |-> 0, commute |-> FALSE],
       [prefix |-> <<>>, gap |-> 0, commute |-> TRUE],
       [prefix |-> <<"less", "than">>, gap |-> 0, commute |-> FALSE] >>

RECURSIVE FirstMinutes(_, _)
FirstMinutes(patterns, q) ==
    IF patterns = <<>> THEN NoMatch
    ELSE LET m == MinutesSearch(q, Head(patterns))
         IN  IF m.matched THEN m ELSE FirstMinutes(Tail(patterns), q)

\* the longest digit string int() converts (sys.int_info.default_max_str_digits)
int_max_str_digits == 4300

DigitOf(c) == CHOOSE d \in 0..9 : Char(Digits, d + 1) = c

RECURSIVE DigitsValue(_)
DigitsValue(g) ==
    IF g = "" THEN 0
    ELSE 10 * DigitsValue(SubSeq(g, 1, Len(g) - 1)) + DigitOf(Char(g, Len(g)))

\* an absent number, and a number
NoNumber == <<>>
Number(n) == <<n>>

\* int(match.group(1)): ValueError beyond the digit limit
int(g) ==
    IF Len(g) > int_max_str_digits
    THEN [error |-> "ValueError", value |-> NoNumber]
    ELSE [error |-> "none", value |-> Number(DigitsValue(g))]

_extract_time_constraint(q) ==
    LET match == FirstMinutes(time_patterns, q)
    IN  IF match.matched THEN int(match.group) ELSE [error |-> "none", value |-> NoNumber]

transport_patterns ==
    << [prep |-> "by", modes |-> <<"train", "subway", "bus", "walking", "car", "bike">>],
       [prep |-> "on", modes |-> <<"train", "subway", "bus", "foot", "bike">>],
       [prep |-> "via", modes |-> <<"train", "subway", "bus", "walking", "car", "bike">>] >>

\* the chain without the branch for "foot"
ModeOf_NoFoot(mode) ==
    IF mode \in {"train", "subway"} THEN "transit"
    ELSE IF mode \in {"walking"} THEN "walking"
    ELSE IF mode \in {"bike", "bicycling"} THEN "bicycling"
    ELSE IF mode \in {"car", "driving"} THEN "driving"
    ELSE IF mode \in {"bus"} THEN "transit"
    ELSE None

\* the if/elif chain over the captured word
ModeOf(mode) ==
    IF mode \in {"train", "subway"} THEN "transit"
    ELSE IF mode \in {"walking", "foot"} THEN "walking"
    ELSE IF mode \in {"bike", "bicycling"} THEN "bicycling"
    ELSE IF mode \in {"car", "driving"} THEN "driving"
    ELSE IF mode \in {"bus"} THEN "transit"
    ELSE None

RECURSIVE TransportFrom(_, _)
TransportFrom(patterns, q) ==
    IF patterns = <<>> THEN "transit"
    ELSE LET m == TransportSearch(q, Head(patterns))
         IN  IF m.matched /\ ModeOf(m.group) # None THEN ModeOf(m.group)
             ELSE TransportFrom(Tail(patterns), q)

_extract_transport_mode(q) == TransportFrom(transport_patterns, q)

starting_patterns ==
    << [prefix |-> <<"starting">>, prep |-> "at", cap |-> "greedy", words |-> <<>>],
       [prefix |-> <<>>, prep |-> "from", cap |-> "greedy", words |-> <<>>],
       [prefix |-> <<"i'm">>, prep |-> "at", cap |-> "greedy", words |-> <<>>],
       [prefix |-> <<>>, prep |-> "at", cap |-> "before",
        words |-> <<"street", "avenue", "road", "boulevard">>] >>

\* a loop without the break, so that the last pattern that matches wins
RECURSIVE FirstStart_LastWins(_, _)
FirstStart_LastWins(patterns, q) ==
    IF patterns = <<>> THEN NoMatch
    ELSE LET later == FirstStart_LastWins(Tail(patterns), q)
         IN  IF later.matched THEN later ELSE StartSearch(q, Head(patterns))

RECURSIVE FirstStart(_, _)
FirstStart(patterns, q) ==
    IF patterns = <<>> THEN NoMatch
    ELSE LET m == StartSearch(q, Head(patterns))
         IN  IF m.matched THEN m ELSE FirstStart(Tail(patterns), q)

_extract_starting_point(q) ==
    LET match == FirstStart(starting_patterns, q)
    IN  IF match.matched THEN strip(match.group) ELSE None

\* what a parser that raised leaves behind
Raised(name, err) ==
    [parser |-> name, error |-> err, event_type |-> None, location |-> None,
     time_constraint |-> None, starting_point |-> None, travel_time |-> NoNumber,
     max_travel_time |-> NoNumber, transport_mode |-> None, check_conflicts |-> FALSE]

parse_query(raw) ==
    LET query_lower == lower(raw)
        max_time == _extract_time_constraint(query_lower)
    IN  IF max_time.error # "none" THEN Raised("parse_query", max_time.error)
        ELSE [parser |-> "parse_query",
              error |-> "none",
              event_type |-> _extract_event_type(query_lower),
              location |-> _extract_location(query_lower),
              time_constraint |-> None,
              starting_point |-> _extract_starting_point(query_lower),
              travel_time |-> NoNumber,
              max_travel_time |-> max_time.value,
              transport_mode |-> _extract_transport_mode(query_lower),
              check_conflicts |-> FALSE]

----------------------------------------------------------------------------
(* NaturalLanguageCalendarCLI.parse_natural_language *)

\* patterns['event_type']: first\s+seconds?
event_type_patterns ==
    << <<"vintage", "market">>, <<"antique", "fair">>, <<"vintage", "festival">>,
       <<"vintage", "popup">>, <<"vintage", "shop">>, <<"flea", "market">>,
       <<"vintage", "event">>, <<"vintage", "show">> >>

RECURSIVE FirstTwoWord(_, _)
FirstTwoWord(patterns, q) ==
    IF patterns = <<>> THEN NoMatch
    ELSE LET m == TwoWordSearch(q, Head(patterns)[1], Head(patterns)[2])
         IN  IF m.matched THEN m ELSE FirstTwoWord(Tail(patterns), q)

\* patterns['location']: four prepositions, then four place names
cli_location_preps == <<"in", "near", "at", "around">>
cli_location_names == <<"nyc", "brooklyn", "manhattan", "queens">>

RECURSIVE FirstSegment(_, _)
FirstSegment(names, q) ==
    IF names = <<>> THEN NoMatch
    ELSE LET m == SegmentSearch(q, Head(names))
         IN  IF m.matched THEN m ELSE FirstSegment(Tail(names), q)

\* the list with the week phrases put before the weekend phrases
time_constraint_patterns_WeekFirst ==
    << [kind |-> "phrase", words |-> <<"this", "week">>],
       [kind |-> "phrase", words |-> <<"next", "week">>],
       [kind |-> "phrase", words |-> <<"this", "weekend">>],
       [kind |-> "phrase", words |-> <<"next", "weekend">>],
       [kind |-> "phrase", words |-> <<"today">>],
       [kind |-> "phrase", words |-> <<"tomorrow">>],
       [kind |-> "segment", words |-> <<"august">>],
       [kind |-> "segment", words |-> <<"september">>] >>

\* patterns['time_constraint']: six phrases, then two month names
time_constraint_patterns ==
    << [kind |-> "phrase", words |-> <<"this", "weekend">>],
       [kind |-> "phrase", words |-> <<"next", "weekend">>],
       [kind |-> "phrase", words |-> <<"this", "week">>],
       [kind |-> "phrase", words |-> <<"next", "week">>],
       [kind |-> "phrase", words |-> <<"today">>],
       [kind |-> "phrase", words |-> <<"tomorrow">>],
       [kind |-> "segment", words |-> <<"august">>],
       [kind |-> "segment", words |-> <<"september">>] >>

TimeSearch(q, pat) ==
    IF pat.kind = "phrase" THEN PhraseSearch(q, pat.words)
    ELSE SegmentSearch(q, pat.words[1])

RECURSIVE FirstTime(_, _)
FirstTime(patterns, q) ==
    IF patterns = <<>> THEN NoMatch
    ELSE LET m == TimeSearch(q, Head(patterns))
         IN  IF m.matched THEN m ELSE FirstTime(Tail(patterns), q)

\* patterns['starting_point']
cli_starting_patterns ==
    << [prefix |-> <<"starting">>, prep |-> "from", cap |-> "greedy", words |-> <<>>],
       [prefix |-> <<"i'm">>, prep |-> "at", cap |-> "greedy", words |-> <<>>],
       [prefix |-> <<>>, prep |-> "from", cap |-> "greedy", words |-> <<>>],
       [prefix |-> <<>>, prep |-> "at", cap |-> "around", words |-> <<"street">>],
       [prefix |-> <<>>, prep |-> "at", cap |-> "around", words |-> <<"avenue">>],
       [prefix |-> <<>>, prep |-> "at", cap |-> "around", words |-> <<"road">>] >>

\* patterns['travel_time']
travel_time_patterns ==
    << [prefix |-> <<>>, gap |-> 1, commute |-> FALSE],
       [prefix |-> <<>>, gap |-> 1, commute |-> FALSE],
       [prefix |-> <<"no", "more", "than">>, gap |-> 1, commute |-> FALSE],
       [prefix |-> <<"less", "than">>, gap |-> 1, commute |-> FALSE],
       [prefix |-> <<"within">>, gap |-> 1, commute |-> FALSE] >>

\* the list without its last pattern
conflict_check_patterns_NoWeekend ==
    << <<"conflict">>, <<"conflict">>, <<"what", "i", "have">>, <<"my", "event">>,
       <<"current", "event">> >>

\* patterns['conflict_check']; an optional final s does not change whether
\* the pattern is found
conflict_check_patterns ==
    << <<"conflict">>, <<"conflict">>, <<"what", "i", "have">>, <<"my", "event">>,
       <<"current", "event">>, <<"this", "weekend">> >>

AnyPhrase(patterns, q) ==
    \E k \in 1..Len(patterns) : PhraseSearch(q, patterns[k]).matched

parse_natural_language(raw) ==
    LET query_lower == lower(raw)
        type == FirstTwoWord(event_type_patterns, query_lower)
        prep == FirstPrep(cli_location_preps, query_lower, FALSE)
        name == FirstSegment(cli_location_names, query_lower)
        time == FirstTime(time_constraint_patterns, query_lower)
        start == FirstStart(cli_starting_patterns, query_lower)
        travel == FirstMinutes(travel_time_patterns, query_lower)
        travel_time == IF travel.matched THEN int(travel.group)
                       ELSE [error |-> "none", value |-> NoNumber]
    IN  IF travel_time.error # "none"
        THEN Raised("parse_natural_language", travel_time.error)
        ELSE [parser |-> "parse_natural_language",
              error |-> "none",
              event_type |-> IF type.matched THEN type.group ELSE None,
              location |-> IF prep.matched THEN strip(prep.group)
                           ELSE IF name.matched THEN strip(name.group)
                           ELSE "nyc",
              time_constraint |-> IF time.matched THEN time.group ELSE None,
              starting_point |-> IF start.matched THEN strip(start.group) ELSE None,
              travel_time |-> travel_time.value,
              max_travel_time |-> NoNumber,
              transport_mode |-> None,
              check_conflicts |-> AnyPhrase(conflict_check_patterns, query_lower)]

----------------------------------------------------------------------------
(* NaturalLanguageCalendarCLI._get_time_range_from_constraint *)

MondayWeekday == 0

\* no range: the value None
NoRange == [given |-> FALSE, branch |-> None, weekday |-> 0, start |-> 0, end |-> 0]

\* a range from 00:00 of the day start days from now to the end of the day
\* end days from now; the default branch runs from now to now + 7 days
Range(branch, weekday, start, end) ==
    [given |-> TRUE, branch |-> branch, weekday |-> weekday, start |-> start, end |-> end]

days_until_monday(weekday) == (MondayWeekday - weekday) % DaysPerWeek

_get_time_range_from_constraint(time_constraint, weekday) ==
    IF time_constraint = None \/ time_constraint = "" THEN NoRange
    ELSE LET tc == lower(time_constraint)
         IN  IF Contains(tc, "this weekend")
             THEN Range("this weekend", weekday, days_until_saturday(weekday),
                        days_until_saturday(weekday) + 1)
             ELSE IF Contains(tc, "next weekend")
             THEN Range("next weekend", weekday, days_until_saturday(weekday) + DaysPerWeek,
                        days_until_saturday(weekday) + DaysPerWeek + 1)
             ELSE IF Contains(tc, "this week")
             THEN Range("this week", weekday, days_until_monday(weekday),
                        days_until_monday(weekday) + 6)
             ELSE IF Contains(tc, "next week")
             THEN Range("next week", weekday, days_until_monday(weekday) + DaysPerWeek,
                        days_until_monday(weekday) + DaysPerWeek + 6)
             ELSE IF Contains(tc, "tomorrow")
             THEN Range("tomorrow", weekday, 1, 1)
             ELSE Range("default", weekday, 0, DaysPerWeek)

----------------------------------------------------------------------------
(* EnhancedEventSearch: travel data of the found events *)

NoFlag == <<>>
Flag(b) == <<b>>

\* Python truthiness of an Optional[int]: None and 0 are falsy
TruthyNumber(n) == n # NoNumber /\ n[1] # 0

\* what the maps collaborator knows of one found event
TravelResult(located, success, duration_seconds) ==
    [located |-> located, success |-> success, duration_seconds |-> duration_seconds]

\* "if max_time: ... travel_minutes <= max_time else: True", with
\* travel_minutes = duration_seconds / 60
within_time_limit(duration_seconds, max_time) ==
    IF TruthyNumber(max_time) THEN Flag(duration_seconds <= 60 * max_time[1])
    ELSE Flag(TRUE)

_enhance_event_with_location_data(event, starting_coords, max_time) ==
    IF event.located /\ starting_coords /\ event.success
    THEN [travel_time |-> Number(event.duration_seconds),
          within_time_limit |-> within_time_limit(event.duration_seconds, max_time)]
    ELSE [travel_time |-> NoNumber, within_time_limit |-> NoFlag]

\* key=lambda x: x.get("travel_time") or float('inf'); a < b on the keys
KeyLess(a, b) ==
    /\ TruthyNumber(a.travel_time)
    /\ TruthyNumber(b.travel_time) => a.travel_time[1] < b.travel_time[1]

\* list.sort is stable: x goes after every element whose key is <= its key
RECURSIVE InsertByKey(_, _)
InsertByKey(s, x) ==
    IF s = <<>> THEN <<x>>
    ELSE IF KeyLess(x, Head(s)) THEN <<x>> \o s
    ELSE <<Head(s)>> \o InsertByKey(Tail(s), x)

RECURSIVE sort_by_travel_time(_)
sort_by_travel_time(evs) ==
    IF evs = <<>> THEN <<>>
    ELSE InsertByKey(sort_by_travel_time(SubSeq(evs, 1, Len(evs) - 1)), evs[Len(evs)])

NoSearch ==
    [status |-> "idle", starting_coords |-> FALSE, max_time |-> NoNumber,
     found |-> <<>>, events |-> <<>>]

\* the part of search_natural_language after the event search
enhance_and_sort(found, starting_coords, max_time) ==
    LET enhanced_events ==
            [k \in 1..Len(found) |->
                _enhance_event_with_location_data(found[k], starting_coords, max_time)]
        any == \E k \in 1..Len(found) : TruthyNumber(enhanced_events[k].travel_time)
    IN  [status |-> "success", starting_coords |-> starting_coords,
         max_time |-> max_time, found |-> found,
         events |-> IF starting_coords /\ any
                    THEN sort_by_travel_time(enhanced_events)
                    ELSE enhanced_events]

----------------------------------------------------------------------------
(* Specification of the parsers *)

\* the words of the modelled requests about categories; the empty word
\* doubles a blank
Vocabulary ==
    { "", "Vintage", "markets", "food", "music", "yoga", "festival",
      "performance", "party", "in" }

\* the words of the modelled requests about places
LocationWords ==
    { "", "in", "near", "at", "within", "30", "brooklyn", "Queens", "soho", "harlem," }

\* the phrases of the modelled requests about the way to the event
TravelWords ==
    { "", "I'm at", "starting at", "from home,", "Street,", "within",
      "45min", "30min away", "30", "min" }

\* the words of the modelled requests about dates
TimeWords ==
    { "", "This", "next", "weekend", "week", "today", "tomorrow", "august",
      "markets,", "conflicts" }

\* the words of the modelled requests about the user's own calendar
ConflictWords ==
    { "", "Conflicts", "what", "I", "have", "my", "events", "current", "This",
      "weekend" }

\* the words of the modelled requests about the means of transport
TransportWords ==
    { "", "by", "on", "via", "train", "foot", "car", "bike", "bus", "Walking", "subway" }

\* s written n times
RECURSIVE Repeat(_, _)
Repeat(s, n) ==
    IF n = 0 THEN ""
    ELSE IF n % 2 = 1 THEN s \o Repeat(s, n - 1)
    ELSE Repeat(s, n \div 2) \o Repeat(s, n \div 2)

\* a request whose number has one digit more than int() converts
LongRequest == "less than " \o Repeat("1", int_max_str_digits + 1) \o " min"

RECURSIVE Join(_)
Join(words) ==
    IF words = <<>> THEN ""
    ELSE IF Len(words) = 1 THEN words[1]
    ELSE words[1] \o " " \o Join(Tail(words))

\* sys.argv[1:] joined by blanks
QueriesOver(words) == { Join(ws) : ws \in SeqsUpTo(words, MaxWords) } \ {""}

\* the two requests of the documented scenarios
WeekendRequest == "find vintage markets near brooklyn this weekend"
TrainRequest == "I'm at 162 East 82nd Street, no more than 30 min by train"

Queries == QueriesOver(Vocabulary) \cup {WeekendRequest, TrainRequest}

NoIntent == Raised("none", "none")

ParseInit(queries) ==
    /\ pc = "input"
    /\ time_range = NoRange
    /\ listings = <<>>
    /\ answers = NoAnswers
    /\ suggest = NoSuggest
    /\ search = NoSearch
    /\ report = NoReport
    /\ query \in queries
    /\ intent = NoIntent
    /\ events = <<>>
    /\ sched_result = NoSched
    /\ candidate = NoCandidate
    /\ avail_result = NoAvail
    /\ free_result = NoFree

InitParse == ParseInit(Queries)

InitParseLocation == ParseInit(QueriesOver(LocationWords))

InitParseTravel == ParseInit(QueriesOver(TravelWords) \cup {LongRequest})

InitParseTime == ParseInit(QueriesOver(TimeWords))

InitParseConflict == ParseInit(QueriesOver(ConflictWords))

InitParseTransport == ParseInit(QueriesOver(TransportWords))

ParseQuery ==
    /\ pc = "input"
    /\ intent' = parse_query(query)
    /\ pc' = "done"
    /\ UNCHANGED <<query, events, sched_result, candidate, avail_result, free_result, time_range, listings, answers, suggest, search, report>>

ParseNaturalLanguage ==
    /\ pc = "input"
    /\ intent' = parse_natural_language(query)
    /\ pc' = "done"
    /\ UNCHANGED <<query, events, sched_result, candidate, avail_result, free_result, time_range, listings, answers, suggest, search, report>>

\* process_natural_language_query, step 3: _check_calendar_conflicts derives
\* the date range when the request asked for a conflict check
CheckCalendarConflicts ==
    /\ pc = "done"
    /\ intent.parser = "parse_natural_language"
    /\ intent.error = "none"
    /\ intent.check_conflicts
    /\ \E weekday \in Weekdays :
         time_range' = _get_time_range_from_constraint(intent.time_constraint, weekday)
    /\ pc' = "ranged"
    /\ UNCHANGED <<query, intent, events, sched_result, candidate, avail_result,
                   free_result, listings, answers, suggest, search, report>>

NextParse == ParseQuery \/ ParseNaturalLanguage

NextParseTime == ParseQuery \/ ParseNaturalLanguage \/ CheckCalendarConflicts

SpecParse == InitParse /\ [][NextParse]_vars

SpecParseLocation == InitParseLocation /\ [][NextParse]_vars

SpecParseTravel == InitParseTravel /\ [][NextParse]_vars

SpecParseTime == InitParseTime /\ [][NextParseTime]_vars

SpecParseConflict == InitParseConflict /\ [][NextParse]_vars

SpecParseTransport == InitParseTransport /\ [][NextParse]_vars

----------------------------------------------------------------------------
(* Specification of one availability check *)

InitAvail ==
    /\ pc = "input"
    /\ time_range = NoRange
    /\ listings = <<>>
    /\ answers = NoAnswers
    /\ suggest = NoSuggest
    /\ search = NoSearch
    /\ report = NoReport
    /\ events \in SeqsUpTo(AvailEvents, MaxEvents)
    /\ candidate \in Candidates
    /\ avail_result = NoAvail
    /\ free_result = NoFree
    /\ sched_result = NoSched
    /\ query = ""
    /\ intent = NoIntent

CheckAvailability ==
    /\ pc = "input"
    /\ \E list_ok \in BOOLEAN :
         /\ avail_result' = check_availability(candidate.start, candidate.end, list_ok, events)
         /\ listings' = <<list_ok>>
    /\ pc' = "done"
    /\ UNCHANGED <<events, candidate, free_result, sched_result, query, intent, time_range, answers, suggest, search, report>>

NextAvail == CheckAvailability

SpecAvail == InitAvail /\ [][NextAvail]_vars

----------------------------------------------------------------------------
(* Specification of the "suggest <date> <duration>" command *)

SuggestEvents ==
    { Event(DateTimeTS(p[1], "Z"), DateTimeTS(p[2], "Z")) :
        p \in { q \in SuggestGrid \X SuggestGrid : q[1] < q[2] } }

InitSuggest ==
    /\ pc = "input"
    /\ time_range = NoRange
    /\ listings = <<>>
    /\ answers = NoAnswers
    /\ suggest = NoSuggest
    /\ search = NoSearch
    /\ report = NoReport
    /\ events \in SeqsUpTo(SuggestEvents, MaxEvents)
    /\ candidate = NoCandidate
    /\ avail_result = NoAvail
    /\ free_result = NoFree
    /\ sched_result = NoSched
    /\ query = ""
    /\ intent = NoIntent

\* strptime of the date, then current_time = start_of_day
SuggestStart ==
    /\ pc = "input"
    /\ \E date_ok \in BOOLEAN, duration_minutes \in SuggestDurations :
         IF date_ok
         THEN /\ suggest' = [NoSuggest EXCEPT !.status = "loop",
                                              !.duration_minutes = duration_minutes,
                                              !.current_time = preferred_start]
              /\ pc' = "loop"
         ELSE /\ suggest' = [NoSuggest EXCEPT !.status = "failed",
                                              !.duration_minutes = duration_minutes]
              /\ pc' = "done"
    /\ UNCHANGED <<events, candidate, avail_result, free_result, sched_result,
                   query, intent, time_range, listings, answers, search, report>>

\* one iteration of the while loop
SuggestSlot ==
    /\ pc = "loop"
    /\ slot_fits(suggest)
    /\ \E list_ok \in BOOLEAN :
         LET slot == Candidate(suggest.current_time, suggest.duration_minutes)
             availability == check_availability(slot.start, slot.end, list_ok, events)
         IN  /\ suggest' = suggest_slot(suggest, availability)
             /\ listings' = Append(listings, list_ok)
    /\ UNCHANGED <<pc, events, candidate, avail_result, free_result, sched_result,
                   query, intent, time_range, answers, search, report>>

\* the loop condition is false: return the slots
SuggestReturn ==
    /\ pc = "loop"
    /\ ~slot_fits(suggest)
    /\ suggest' = [suggest EXCEPT !.status = "success"]
    /\ pc' = "done"
    /\ UNCHANGED <<events, candidate, avail_result, free_result, sched_result,
                   query, intent, time_range, listings, answers, search, report>>

NextSuggest == SuggestStart \/ SuggestSlot \/ SuggestReturn

\* the loop is sequential code: a step that can be taken is taken
SpecSuggest == InitSuggest /\ [][NextSuggest]_vars /\ WF_vars(NextSuggest)

----------------------------------------------------------------------------
(* Specification of the search with travel data *)

TravelResults ==
    { TravelResult(FALSE, FALSE, 0), TravelResult(TRUE, FALSE, 0) }
        \cup { TravelResult(TRUE, TRUE, d) : d \in TravelSeconds }

InitSearch ==
    /\ pc = "input"
    /\ time_range = NoRange
    /\ listings = <<>>
    /\ answers = NoAnswers
    /\ suggest = NoSuggest
    /\ search \in { [NoSearch EXCEPT !.found = found] :
                      found \in SeqsUpTo(TravelResults, MaxEvents) }
    /\ report = NoReport
    /\ events = <<>>
    /\ candidate = NoCandidate
    /\ avail_result = NoAvail
    /\ free_result = NoFree
    /\ sched_result = NoSched
    /\ query = ""
    /\ intent = NoIntent

SearchNaturalLanguage ==
    /\ pc = "input"
    /\ \E starting_coords \in BOOLEAN,
          max_time \in {NoNumber} \cup { Number(m) : m \in MaxTravelMinutes } :
         search' = enhance_and_sort(search.found, starting_coords, max_time)
    /\ pc' = "done"
    /\ UNCHANGED <<events, candidate, avail_result, free_result, sched_result,
                   query, intent, time_range, listings, answers, suggest, report>>

NextSearch == SearchNaturalLanguage

SpecSearch == InitSearch /\ [][NextSearch]_vars

----------------------------------------------------------------------------
(* Specification of the "conflicts <date> <time> <duration>" command *)

InitConflicts ==
    /\ pc = "input"
    /\ time_range = NoRange
    /\ listings = <<>>
    /\ answers = NoAnswers
    /\ suggest = NoSuggest
    /\ search = NoSearch
    /\ report = NoReport
    /\ events \in SeqsUpTo(AvailEvents, MaxEvents)
    /\ candidate = NoCandidate
    /\ avail_result = NoAvail
    /\ free_result = NoFree
    /\ sched_result = NoSched
    /\ query = ""
    /\ intent = NoIntent

CheckConflicts ==
    /\ pc = "input"
    /\ \E args_ok \in BOOLEAN, time \in CandidateStarts,
          duration_minutes \in CandidateDurations, list_ok \in BOOLEAN :
         /\ report' = check_conflicts(args_ok, 0, time, duration_minutes, list_ok, events)
         /\ listings' = IF report'.checked THEN <<list_ok>> ELSE <<>>
    /\ pc' = "done"
    /\ UNCHANGED <<events, candidate, avail_result, free_result, sched_result,
                   query, intent, time_range, answers, suggest, search>>

NextConflicts == CheckConflicts

SpecConflicts == InitConflicts /\ [][NextConflicts]_vars

----------------------------------------------------------------------------
(* Specification of the event-creation flows *)

\* events already on the calendar: Saturday 10:00-11:30 and 14:00-16:30
SchedEvents ==
    { Event(c.start, c.end) :
        c \in { Candidate(SaturdayWeekday * MinutesPerDay + MorningHour * 60, QuickMinutes),
                Candidate(SaturdayWeekday * MinutesPerDay + AfternoonHour * 60, NormalMinutes) } }

Answers == {"y", "n"}

ScheduleInputs ==
    [ weekday : Weekdays,
      date_choice : {"saturday", "sunday", "custom", "friday"},
      date_str : { [ok |-> TRUE, day |-> d] : d \in CustomDays }
                     \cup { [ok |-> FALSE, day |-> 0] },
      time_choice : {"morning", "afternoon", "evening", "custom", "noon"},
      time_str : { [ok |-> TRUE, min |-> t] : t \in CustomTimes }
                     \cup { [ok |-> FALSE, min |-> 0] },
      duration_choice : {"quick", "normal", "long", "custom", "short"},
      duration_input : { [ok |-> TRUE, val |-> d] : d \in CustomDurations }
                           \cup { [ok |-> FALSE, val |-> 0] },
      confirm : Answers,
      proceed : Answers ]

InitSched ==
    /\ pc = "input"
    /\ time_range = NoRange
    /\ listings = <<>>
    /\ answers = NoAnswers
    /\ suggest = NoSuggest
    /\ search = NoSearch
    /\ report = NoReport
    /\ events \in SeqsUpTo(SchedEvents, MaxEvents)
    /\ sched_result = NoSched
    /\ candidate = NoCandidate
    /\ avail_result = NoAvail
    /\ free_result = NoFree
    /\ query = ""
    /\ intent = NoIntent

AddEvent ==
    /\ pc = "input"
    /\ \E args_ok \in BOOLEAN, day \in {SaturdayWeekday, SaturdayWeekday + 1},
          time \in {MorningHour * 60} \cup CustomTimes,
          duration_minutes \in {QuickMinutes} \cup CustomDurations,
          list_ok \in BOOLEAN, proceed \in Answers, create_ok \in BOOLEAN :
         /\ sched_result' = add_event(args_ok, day, time, duration_minutes,
                                      list_ok, events, proceed, create_ok)
         /\ events' = calendar_after(events, sched_result')
         /\ listings' = listed(sched_result', list_ok)
    /\ pc' = "done"
    /\ UNCHANGED <<candidate, avail_result, free_result, query, intent, time_range, answers, suggest, search, report>>

ScheduleSelectedEvent ==
    /\ pc = "input"
    /\ \E in \in ScheduleInputs, list_ok \in BOOLEAN, create_ok \in BOOLEAN :
         /\ sched_result' = schedule_selected_event(in, list_ok, events, create_ok)
         /\ events' = calendar_after(events, sched_result')
         /\ listings' = listed(sched_result', list_ok)
         /\ answers' = in
    /\ pc' = "done"
    /\ UNCHANGED <<candidate, avail_result, free_result, query, intent, time_range, suggest, search, report>>

NextSched == AddEvent \/ ScheduleSelectedEvent

SpecSched == InitSched /\ [][NextSched]_vars

----------------------------------------------------------------------------
(* Specification of the "free <date>" command *)

InitFree ==
    /\ pc = "input"
    /\ time_range = NoRange
    /\ listings = <<>>
    /\ answers = NoAnswers
    /\ suggest = NoSuggest
    /\ search = NoSearch
    /\ report = NoReport
    /\ events \in SeqsUpTo(FreeEvents, MaxEvents)
    /\ free_result = NoFree
    /\ candidate = NoCandidate
    /\ avail_result = NoAvail
    /\ sched_result = NoSched
    /\ query = ""
    /\ intent = NoIntent

ShowFreeTimes ==
    /\ pc = "input"
    /\ \E date_ok \in BOOLEAN, list_ok \in BOOLEAN :
         free_result' = show_free_times(date_ok, list_ok, events)
    /\ pc' = "done"
    /\ UNCHANGED <<events, candidate, avail_result, sched_result, query, intent, time_range, listings, answers, suggest, search, report>>

NextFree == ShowFreeTimes

SpecFree == InitFree /\ [][NextFree]_vars

----------------------------------------------------------------------------
(* Properties of the free-time sweep *)

\* a busy interval the sweep reads: both ends present, a time of day in both
IsTimed(e) == e.start.k = "dt" /\ e.end.k = "dt"
WellFormed(e) == IsTimed(e) /\ e.start.m < e.end.m
IsNaive(e) == e.start.z = "" /\ e.end.z = ""

EventIdx == 1..Len(events)
SlotIdx == 1..Len(free_result.free_slots)

SweepRan == pc = "done" /\ free_result.status = "slots"

\* half-open overlap of a slot and a busy interval
SlotOverlaps(slot, e) == slot.start < e.end.m /\ e.start.m < slot.end

\* C1: for every list of well-formed busy intervals, nested and partially
\* overlapping ones included, no free slot the sweep produced overlaps a busy
\* interval.
C1_NoSlotOverlapsBusy ==
    (SweepRan /\ \A i \in EventIdx : WellFormed(events[i]) /\ IsNaive(events[i]))
        => \A k \in SlotIdx, i \in EventIdx :
               ~SlotOverlaps(free_result.free_slots[k], events[i])

\* the segments of the day window between neighbouring clock readings
WindowPoints ==
    { t \in TimeGrid \cup {start_of_day} : start_of_day <= t /\ t < end_of_day }

InSlot(t, slot) == slot.start <= t /\ t < slot.end
InBusy(t, e) == e.start.m <= t /\ t < e.end.m

PairwiseDisjoint ==
    \A i \in EventIdx, j \in EventIdx :
        i < j => ~(events[i].start.m < events[j].end.m
                   /\ events[j].start.m < events[i].end.m)

\* C2: for pairwise-disjoint busy intervals in any order, the free slots and
\* the busy intervals clipped to the window cover the window exactly: every
\* instant of the window lies in exactly one slot or busy interval, and no
\* slot reaches outside the window.
C2_ExactCover ==
    (pc = "done" /\ free_result.status \in {"slots", "TypeError"}
     /\ (\A i \in EventIdx : WellFormed(events[i])) /\ PairwiseDisjoint)
        => /\ \A t \in WindowPoints :
                Cardinality({k \in SlotIdx : InSlot(t, free_result.free_slots[k])})
                + Cardinality({i \in EventIdx : InBusy(t, events[i])}) = 1
           /\ \A k \in SlotIdx :
                /\ start_of_day <= free_result.free_slots[k].start
                /\ free_result.free_slots[k].end <= end_of_day

\* C6: when a busy interval has end <= start the computation signals a
\* validation error and produces no slots.
C6_MalformedRejected ==
    (pc = "done" /\ free_result.status \notin {"invalid_date", "list_failed"}
     /\ \E i \in EventIdx : IsTimed(events[i]) /\ events[i].end.m <= events[i].start.m)
        => free_result.status = "validation_error" /\ free_result.free_slots = <<>>

\* C7: every emitted free slot has duration = end - start, and that duration
\* is at least the 30-minute threshold, for the gaps before an event and for
\* the trailing gap alike.
C7_SlotDuration ==
    \A k \in SlotIdx :
        /\ free_result.free_slots[k].duration
             = free_result.free_slots[k].end - free_result.free_slots[k].start
        /\ free_result.free_slots[k].duration >= MinFreeMinutes

\* a sweep that emitted a gap before an event and the trailing gap
C7_Witness ==
    /\ SweepRan
    /\ Len(free_result.free_slots) >= 2
    /\ free_result.free_slots[Len(free_result.free_slots)].end = end_of_day
    /\ \E i \in EventIdx : free_result.free_slots[1].end = events[i].start.m

Reorderings(evs) ==
    { [i \in 1..Len(evs) |-> evs[p[i]]] :
        p \in { q \in [1..Len(evs) -> 1..Len(evs)] :
                  \A a, b \in 1..Len(evs) : q[a] = q[b] => a = b } }

\* C8: the free slots depend only on the collection of busy intervals: every
\* reordering of the list yields the same output, also when two intervals
\* share a start time.
C8_OrderIndependent ==
    (pc = "done" /\ free_result.status \in {"slots", "TypeError"}
     /\ \A i \in EventIdx : WellFormed(events[i]))
        => \A evs \in Reorderings(events) :
               show_free_times(TRUE, TRUE, evs) = free_result

\* the slots start one after the other and none reaches into the next
SlotsInOrder ==
    \A k \in SlotIdx, l \in SlotIdx :
        k < l => /\ free_result.free_slots[k].start < free_result.free_slots[l].start
                 /\ free_result.free_slots[k].end <= free_result.free_slots[l].start

SlotsInWindow ==
    \A k \in SlotIdx :
        /\ start_of_day <= free_result.free_slots[k].start
        /\ free_result.free_slots[k].start < free_result.free_slots[k].end
        /\ free_result.free_slots[k].end <= end_of_day

\* C24: for busy intervals that each have start < end, the free slots of the
\* sweep are listed in strictly increasing start order, are pairwise disjoint,
\* and each lies inside [day_start, day_end].
C24_SlotsOrderedDisjointInWindow ==
    (SweepRan /\ \A i \in EventIdx : WellFormed(events[i]))
        => SlotsInOrder /\ SlotsInWindow

\* an event with a span: both values present and start before end; the span
\* of an all-day event runs from the midnight of its start date to the
\* midnight of its end date
HasSpan(e) == Truthy(e.start) /\ Truthy(e.end) /\ e.start.m < e.end.m

\* C30: every event returned for the day occupies time in the free-slot
\* computation: no free slot includes any part of the span of an event, also
\* when the event's start has no time of day (an all-day event).
C30_EveryEventOccupiesTime ==
    SweepRan
        => \A i \in EventIdx :
              HasSpan(events[i])
                 => \A k \in SlotIdx : ~SlotOverlaps(free_result.free_slots[k], events[i])

\* the free spans the command reports: the slots of the sweep, or the span
\* printed for a day without events
ReportedSpans ==
    [k \in SlotIdx |-> [start |-> free_result.free_slots[k].start,
                        end |-> free_result.free_slots[k].end]]
        \o free_result.available

FreeRan == pc = "done" /\ free_result.status \in {"slots", "completely_free"}

\* C21: with an empty busy list and a window at least as long as the minimum
\* threshold, exactly one free span is reported, and it is the whole window
\* [day_start, day_end].
C21_EmptyDayWholeWindow ==
    (FreeRan /\ events = <<>> /\ end_of_day - start_of_day >= MinFreeMinutes)
        => ReportedSpans = <<[start |-> start_of_day, end |-> end_of_day]>>

\* the command ran on a day without events
C21_Witness ==
    /\ FreeRan
    /\ events = <<>>
    /\ Len(ReportedSpans) = 1

----------------------------------------------------------------------------
(* Properties of the conflict check *)

CheckRan == pc = "done" /\ avail_result.success

\* an event whose two ends name an instant: a time of day and a UTC offset
HasInstant(e) == IsTimed(e) /\ e.start.z # "" /\ e.end.z # ""

\* the instant (minutes, UTC) a timestamp with an offset denotes
Instant(ts) == ts.m + UtcShift(ts.z)

\* candidate.start < busy.end and candidate.end > busy.start, on instants
InstantsOverlap(c, e) ==
    Instant(c.start) < Instant(e.end) /\ Instant(c.end) > Instant(e.start)

Reported(e) ==
    \E k \in 1..Len(avail_result.conflicts) :
        avail_result.conflicts[k] = [start |-> e.start, end |-> e.end]

\* C3: a busy interval is reported as conflicting iff candidate.start <
\* busy.end and candidate.end > busy.start as instants; touching intervals do
\* not conflict.
C3_ConflictIffInstantsOverlap ==
    CheckRan =>
        \A i \in EventIdx :
            HasInstant(events[i])
                => (Reported(events[i]) <=> InstantsOverlap(candidate, events[i]))

RECURSIVE OverlappingInOrder(_, _)
OverlappingInOrder(c, evs) ==
    IF evs = <<>> THEN <<>>
    ELSE IF InstantsOverlap(c, Head(evs))
         THEN <<[start |-> Head(evs).start, end |-> Head(evs).end]>>
                  \o OverlappingInOrder(c, Tail(evs))
         ELSE OverlappingInOrder(c, Tail(evs))

\* C4: the conflict list is exactly the list of busy intervals overlapping the
\* candidate, in input order, and available is true iff that list is empty.
C4_ConflictsExactInOrder ==
    (CheckRan /\ \A i \in EventIdx : HasInstant(events[i]))
        => /\ avail_result.conflicts = OverlappingInOrder(candidate, events)
           /\ avail_result.available <=> (avail_result.conflicts = <<>>)

\* the candidate ends before the busy interval starts, or starts after it
\* ends, as instants
StrictlyApart(c, e) ==
    \/ Instant(c.end) < Instant(e.start)
    \/ Instant(c.start) > Instant(e.end)

\* C20: a candidate that lies strictly before or strictly after every busy
\* interval (every candidate, when there is none) is reported available,
\* with an empty conflict list.
C20_ApartIsAvailable ==
    ( /\ CheckRan
      /\ \A i \in EventIdx :
            /\ HasInstant(events[i])
            /\ Instant(events[i].start) < Instant(events[i].end)
            /\ StrictlyApart(candidate, events[i]) )
        => /\ avail_result.available
           /\ avail_result.conflicts = <<>>

\* the check ran and its call of list_events failed
ListingFailed == pc = "done" /\ listings = <<FALSE>>

\* the results that are not a value: an exception that left the function
Exceptions == {"TypeError", "ValueError", "AttributeError"}

\* C22: when the event listing fails, the availability check returns a tagged
\* failure (success false, an error reason), raises nothing, and reports the
\* slot neither as available nor as conflicting.
C22_ListingFailureTagged ==
    ListingFailed
        => /\ ~avail_result.success
           /\ avail_result.error \notin {"none"} \cup Exceptions
           /\ ~avail_result.available
           /\ avail_result.conflicts = <<>>
           /\ avail_result.available_slots = <<>>

\* a failed listing for a calendar that holds an event overlapping the candidate
C22_Witness ==
    /\ ListingFailed
    /\ \E i \in EventIdx : HasInstant(events[i]) /\ InstantsOverlap(candidate, events[i])

----------------------------------------------------------------------------
(* Properties of the slot suggestion *)

\* the starts on the 30-minute grid from day_start whose slot ends by day_end
GridStarts(d) ==
    { t \in preferred_start..preferred_end :
        /\ (t - preferred_start) % SlotStepMinutes = 0
        /\ t + d <= preferred_end }

SuggestedSlots == { suggest.time_slots[k] : k \in 1..Len(suggest.time_slots) }

\* the checks made for the slot that starts at t
ChecksAt(t) ==
    { k \in 1..Len(suggest.checks) :
        suggest.checks[k].slot = Candidate(t, suggest.duration_minutes) }

SlotsOnGrid ==
    \A slot \in SuggestedSlots :
        /\ slot.start.m \in GridStarts(suggest.duration_minutes)
        /\ slot.end.m = slot.start.m + suggest.duration_minutes

SuggestedIffAvailable ==
    (pc = "done" /\ suggest.status = "success")
        => \A t \in GridStarts(suggest.duration_minutes) :
              /\ Cardinality(ChecksAt(t)) = 1
              /\ Candidate(t, suggest.duration_minutes) \in SuggestedSlots
                   <=> \E k \in ChecksAt(t) :
                          /\ suggest.checks[k].availability.success
                          /\ suggest.checks[k].availability.available

\* C26: suggest_event_time terminates for every positive duration; the slots
\* it returns are [t, t + duration] with day_start <= t, t + duration <=
\* day_end and t on the 30-minute grid from day_start; a slot is returned iff
\* the availability check for exactly that slot succeeded with available =
\* true, so a slot whose check failed is never suggested.
C26_SuggestTerminatesOnGrid ==
    /\ [](SlotsOnGrid /\ SuggestedIffAvailable)
    /\ <>(pc = "done")

\* a finished scan with a suggested slot, a slot whose listing failed and a
\* slot that conflicts with an event
C26_Witness ==
    /\ pc = "done"
    /\ suggest.status = "success"
    /\ suggest.time_slots # <<>>
    /\ \E k \in 1..Len(suggest.checks) : ~suggest.checks[k].availability.success
    /\ \E k \in 1..Len(suggest.checks) :
          /\ suggest.checks[k].availability.success
          /\ ~suggest.checks[k].availability.available

----------------------------------------------------------------------------
(* Properties of the search with travel data *)

ResultIdx == 1..Len(search.events)

Obtained(k) == search.events[k].travel_time # NoNumber

\* C28: when a travel time was obtained for an event and the request gave a
\* maximum travel time m >= 0, within_time_limit is true iff
\* travel_seconds / 60 <= m; the flag is true whatever the travel time only
\* when no maximum was given; and with a geocoded starting point the events
\* are returned in non-decreasing travel-time order.
C28_WithinLimitAndOrder ==
    pc = "done"
        => /\ \A k \in ResultIdx :
                 Obtained(k)
                    => search.events[k].within_time_limit
                         = IF search.max_time = NoNumber THEN Flag(TRUE)
                           ELSE Flag(search.events[k].travel_time[1]
                                       <= 60 * search.max_time[1])
           /\ search.starting_coords
                 => \A k \in ResultIdx, l \in ResultIdx :
                       (k < l /\ Obtained(k) /\ Obtained(l))
                          => search.events[k].travel_time[1]
                               <= search.events[l].travel_time[1]

----------------------------------------------------------------------------
(* Properties of the "conflicts" command *)

\* C29: for every well-formed date, time and integer duration the
\* "conflicts" command computes the interval [start, start + duration], runs
\* the availability check on it and ends by reporting 'no conflicts' or the
\* list of conflicts; it does not end in an unhandled error.
C29_ConflictsCommandReports ==
    (pc = "done" /\ report.args_ok)
        => /\ report.status \notin Exceptions
           /\ report.checked
           /\ report.slot = Candidate(report.start, report.duration_minutes)
           /\ listings = <<TRUE>> => report.status \in {"no_conflicts", "conflicts"}

----------------------------------------------------------------------------
(* Properties of the event-creation flows *)

\* C5: create_event is called only after the availability check reported no
\* conflict, or after the user confirmed the override of the reported
\* conflicts, in add_event and in _schedule_selected_event alike.
C5_CreateOnlyAfterClearOrOverride ==
    sched_result.create_called
        => \/ sched_result.check_success /\ sched_result.check_available
           \/ sched_result.asked /\ sched_result.proceed = "y"

\* the choices the prompts accept
DateChoices == {"saturday", "sunday", "custom"}
TimeChoices == {"morning", "afternoon", "evening", "custom"}
DurationChoices == {"quick", "normal", "long", "custom"}

FlowRan == pc = "done" /\ sched_result.flow = "schedule_selected_event"

\* a valid date, time and duration choice, then 'y' at the confirmation
ValidAnswers ==
    /\ answers.date_choice \in DateChoices
    /\ answers.time_choice \in TimeChoices
    /\ answers.duration_choice \in DurationChoices
    /\ answers.duration_choice = "custom" => answers.duration_input.ok
    /\ answers.confirm = "y"

\* C25: in _schedule_selected_event create_event is called only after a valid
\* date choice, a valid time choice, a valid duration choice and the answer
\* 'y' to the confirmation; an invalid choice, a non-numeric custom duration
\* or another confirmation answer ends the flow with no event created.
C25_CreateOnlyAfterValidAnswers ==
    FlowRan
        => /\ sched_result.create_called => ValidAnswers
           /\ ~ValidAnswers
                 => /\ ~sched_result.created
                    /\ sched_result.stage \in
                          {"invalid_date_choice", "invalid_time_choice",
                           "invalid_duration_choice", "invalid_duration",
                           "not_confirmed"}

\* the flow created an event after a custom duration; the same answers with
\* 'n' at the confirmation are part of the inputs
C25_Witness ==
    /\ FlowRan
    /\ sched_result.created
    /\ answers.duration_choice = "custom"
    /\ answers.confirm = "y"

----------------------------------------------------------------------------
(* Properties of the parsers *)

ParsedBy(parser) == pc = "done" /\ intent.parser = parser

\* the configured order of the category groups
GroupOrder == <<"vintage", "food", "art", "music", "fitness", "culture">>

\* the groups with a keyword somewhere in the lower-cased request
GroupsHit ==
    { event_keywords[g].type :
        g \in { h \in 1..Len(event_keywords) :
                  AnyKeyword(lower(query), event_keywords[h].keywords) } }

\* where the first keyword of a group occurs in the request
FirstKeywordAt(g) ==
    Min({ i \in 1..Len(query) :
            \E k \in 1..Len(event_keywords[g].keywords) :
                StartsAt(lower(query), event_keywords[g].keywords[k], i) })

\* C9: the event type is the first group, in the configured order, that has a
\* keyword in the request, wherever the keywords stand in the text; without
\* any keyword it is "events".
C9_FirstGroupInOrderWins ==
    ParsedBy("parse_query") =>
        IF GroupsHit = {} THEN intent.event_type = "events"
        ELSE \E g \in 1..Len(GroupOrder) :
                /\ GroupOrder[g] \in GroupsHit
                /\ \A h \in 1..(g - 1) : GroupOrder[h] \notin GroupsHit
                /\ intent.event_type = GroupOrder[g]

\* a request whose first keyword in the text belongs to a later group than
\* the one that was chosen
C9_Witness ==
    /\ ParsedBy("parse_query")
    /\ \E g \in 1..Len(event_keywords), h \in 1..Len(event_keywords) :
          /\ g < h
          /\ {event_keywords[g].type, event_keywords[h].type} \subseteq GroupsHit
          /\ FirstKeywordAt(h) < FirstKeywordAt(g)
          /\ intent.event_type = event_keywords[g].type

\* C10: for every request the parsed intent has a non-null event type and a
\* non-null, non-empty location.
C10_TypeAndLocationPresent ==
    pc = "done" =>
        /\ intent.event_type # None
        /\ intent.location # None
        /\ intent.location # ""

\* the places both parsers know by name
NamedRegions ==
    { "manhattan", "brooklyn", "queens", "bronx", "staten island", "nyc", "new york" }

\* the prepositions that introduce a place
PlacePrepositions == { "in", "near", "around", "at" }

\* the word w stands at position i of q and words follow it
WordThenMore(q, w, i) ==
    /\ StartsAt(q, w, i)
    /\ i = 1 \/ IsSpace(Char(q, i - 1))
    /\ WsRun(q, i + Len(w)) >= 1
    /\ i + Len(w) + WsRun(q, i + Len(w)) <= Len(q)

\* the request names a sub-region or has a phrase 'in X', 'near X',
\* 'around X' or 'at X'
HasLocationCue(q) ==
    \/ \E r \in NamedRegions : Contains(q, r)
    \/ \E w \in PlacePrepositions : \E i \in 1..Len(q) : WordThenMore(q, w, i)

\* C11: a request without a location cue (no named sub-region, no phrase
\* 'in/near/around/at X') is parsed with the default location 'nyc'.
C11_NoCueGivesDefault ==
    (pc = "done" /\ intent.error = "none" /\ ~HasLocationCue(lower(query)))
        => intent.location = "nyc"

\* the order in which the prepositional patterns are to be tried
PrepositionOrder == <<"in", "near", "around", "at">>

\* the named sub-regions that occur in the request
RegionsIn(q) == { r \in NamedRegions : Contains(q, r) }

\* the prepositional pattern of the parser that ran, tried alone
PrepositionMatch(q, k) == PrepSearch(q, PrepositionOrder[k], intent.parser = "parse_query")

\* C12: a named sub-region that occurs anywhere in the request is the
\* location, whatever prepositional phrase the request has; only without one
\* the location is the group captured by the first of the patterns in, near,
\* around, at that matches.
C12_RegionsBeforePrepositions ==
    (pc = "done" /\ intent.error = "none")
        => IF RegionsIn(lower(query)) # {}
           THEN intent.location \in RegionsIn(lower(query))
           ELSE \A k \in 1..Len(PrepositionOrder) :
                    ( /\ PrepositionMatch(lower(query), k).matched
                      /\ \A j \in 1..(k - 1) : ~PrepositionMatch(lower(query), j).matched )
                        => intent.location = strip(PrepositionMatch(lower(query), k).group)

\* every pattern of a field tried alone on the request, in the configured
\* order
AreasTried(q) ==
    [k \in 1..Len(nyc_areas) |->
        IF Contains(q, nyc_areas[k]) THEN Match(nyc_areas[k]) ELSE NoMatch]
PrepsTried(preps, q, lazy) == [k \in 1..Len(preps) |-> PrepSearch(q, preps[k], lazy)]
SegmentsTried(names, q) == [k \in 1..Len(names) |-> SegmentSearch(q, names[k])]
TimesTried(patterns, q) == [k \in 1..Len(patterns) |-> TimeSearch(q, patterns[k])]
StartsTried(patterns, q) == [k \in 1..Len(patterns) |-> StartSearch(q, patterns[k])]
MinutesTried(patterns, q) == [k \in 1..Len(patterns) |-> MinutesSearch(q, patterns[k])]

\* the indices of the patterns that match
Matching(tried) == { k \in 1..Len(tried) : tried[k].matched }

\* the match of the lowest-index pattern that matches
LowestMatch(tried) ==
    IF Matching(tried) = {} THEN NoMatch ELSE tried[Min(Matching(tried))]

TextOr(m, default) == IF m.matched THEN strip(m.group) ELSE default
GroupOr(m, default) == IF m.matched THEN m.group ELSE default
NumberOr(m, default) == IF m.matched THEN Number(DigitsValue(m.group)) ELSE default

\* C13: each extracted field is the capture of the lowest-index pattern of its
\* own ordered list that matches the request (its default when none does),
\* whatever the other fields' patterns match.
C13_LowestPatternWins ==
    (pc = "done" /\ intent.error = "none")
        => LET q == lower(query)
           IN  IF intent.parser = "parse_query"
               THEN /\ intent.location =
                          TextOr(LowestMatch(AreasTried(q) \o PrepsTried(location_patterns, q, TRUE)), "nyc")
                    /\ intent.max_travel_time =
                          NumberOr(LowestMatch(MinutesTried(time_patterns, q)), NoNumber)
                    /\ intent.starting_point =
                          TextOr(LowestMatch(StartsTried(starting_patterns, q)), None)
               ELSE /\ intent.location =
                          TextOr(LowestMatch(PrepsTried(cli_location_preps, q, FALSE)
                                                \o SegmentsTried(cli_location_names, q)), "nyc")
                    /\ intent.time_constraint =
                          GroupOr(LowestMatch(TimesTried(time_constraint_patterns, q)), None)
                    /\ intent.starting_point =
                          TextOr(LowestMatch(StartsTried(cli_starting_patterns, q)), None)
                    /\ intent.travel_time =
                          NumberOr(LowestMatch(MinutesTried(travel_time_patterns, q)), NoNumber)

\* a request in which two patterns of the starting point match with different
\* captures and the one that stands later in the text has the lower index
C13_Witness ==
    /\ pc = "done"
    /\ intent.error = "none"
    /\ LET tried == StartsTried(IF intent.parser = "parse_query" THEN starting_patterns
                                ELSE cli_starting_patterns, lower(query))
       IN  \E j \in Matching(tried), k \in Matching(tried) :
              /\ j < k
              /\ strip(tried[j].group) # strip(tried[k].group)
              /\ intent.starting_point = strip(tried[j].group)
              /\ Contains(tried[k].group, tried[j].group) = FALSE
              /\ Contains(tried[j].group, tried[k].group) = FALSE

\* the enumerated time constraints
TimeConstraintValues ==
    { "today", "tomorrow", "this week", "next week", "this weekend", "next weekend" }

\* C14: the parsed time constraint is absent or one of today, tomorrow, this
\* week, next week, this weekend, next weekend; no request yields other text.
C14_TimeConstraintEnumerated ==
    (pc # "input" /\ intent.error = "none")
        => intent.time_constraint \in TimeConstraintValues \cup {None}

\* text is first, whitespace, second and nothing else
IsPhrase(text, first, second) == WordsEnd(text, <<first, second>>, 1) = Len(text) + 1

\* the request has none of the time phrases
NoTimePhrase(q) ==
    \A w \in {"week", "today", "tomorrow", "august", "september"} : ~Contains(q, w)

\* the range runs from a Saturday to the Sunday after it
WeekendRange(r) == (r.weekday + r.start) % DaysPerWeek = SaturdayWeekday /\ r.end = r.start + 1

\* C15: for the request parser of the CLI, a request with 'this weekend' gets
\* the this-weekend constraint, never this-week; one with 'next weekend' (and
\* no 'this weekend' before it in the pattern order) gets next-weekend, never
\* next-week; a request with no time phrase gets no constraint; and the date
\* range derived from a weekend constraint is that weekend, not a week.
C15_WeekendBeforeWeek ==
    (pc # "input" /\ intent.parser = "parse_natural_language" /\ intent.error = "none")
        => LET q == lower(query)
               tc == intent.time_constraint
           IN  /\ Contains(q, "this weekend") => IsPhrase(tc, "this", "weekend")
               /\ (Contains(q, "next weekend") /\ ~Contains(q, "this weekend"))
                      => IsPhrase(tc, "next", "weekend")
               /\ NoTimePhrase(q) => tc = None
               /\ (pc = "ranged" /\ Contains(tc, "this weekend"))
                      => /\ WeekendRange(time_range)
                         /\ time_range.start < DaysPerWeek
               /\ (pc = "ranged" /\ Contains(tc, "next weekend") /\ ~Contains(tc, "this weekend"))
                      => /\ WeekendRange(time_range)
                         /\ time_range.start >= DaysPerWeek
                         /\ time_range.start < 2 * DaysPerWeek

\* the range of a next-weekend request was derived; its text matches the
\* pattern of next-week as well
C15_Witness ==
    /\ pc = "ranged"
    /\ Contains(lower(query), "next weekend")
    /\ PhraseSearch(lower(query), <<"next", "week">>).matched
    /\ intent.time_constraint = "next weekend"
    /\ time_range.branch = "next weekend"
    /\ time_range.start >= DaysPerWeek

\* the transport modes of an intent
TransportModes == { "transit", "walking", "bicycling", "driving" }

\* the mode each cue word stands for
ClaimedMode ==
    [w \in {"train", "subway", "bus", "walking", "foot", "bike", "car"} |->
        IF w \in {"train", "subway", "bus"} THEN "transit"
        ELSE IF w \in {"walking", "foot"} THEN "walking"
        ELSE IF w = "bike" THEN "bicycling"
        ELSE "driving"]

\* the cue words of the request: a word of a transport pattern after the
\* pattern's preposition
CuesIn(q) ==
    { w \in DOMAIN ClaimedMode :
        \E k \in 1..Len(transport_patterns) :
            /\ \E n \in 1..Len(transport_patterns[k].modes) : transport_patterns[k].modes[n] = w
            /\ PhraseSearch(q, <<transport_patterns[k].prep, w>>).matched }

\* C16: the transport mode is one of transit, walking, bicycling, driving; it
\* is the mode a transport cue of the request stands for (train, subway, bus:
\* transit; walking, foot: walking; bike: bicycling; car: driving), and
\* transit when the request has no transport cue.
C16_TransportMode ==
    (pc = "done" /\ intent.parser = "parse_query" /\ intent.error = "none")
        => /\ intent.transport_mode \in TransportModes
           /\ IF CuesIn(lower(query)) = {} THEN intent.transport_mode = "transit"
              ELSE intent.transport_mode \in { ClaimedMode[w] : w \in CuesIn(lower(query)) }

\* a request whose only cue is 'on foot' was parsed
C16_Witness ==
    /\ pc = "done"
    /\ intent.parser = "parse_query"
    /\ CuesIn(lower(query)) = {"foot"}
    /\ intent.transport_mode = "walking"

\* the range contains today (day 0)
ContainsToday(r) == r.start <= 0 /\ 0 <= r.end

\* C27: for every current weekday the range of 'this week' runs from a
\* Monday to the Sunday after it and contains the current day; the range of
\* 'this weekend' is the Saturday and Sunday of the current week, which
\* contains today when today is Saturday or Sunday; in every branch
\* start <= end.
C27_RangesContainToday ==
    pc = "ranged"
        => /\ time_range.start <= time_range.end
           /\ time_range.branch = "this week"
                 => /\ (time_range.weekday + time_range.start) % DaysPerWeek = MondayWeekday
                    /\ time_range.end = time_range.start + (DaysPerWeek - 1)
                    /\ ContainsToday(time_range)
           /\ time_range.branch = "this weekend"
                 => /\ WeekendRange(time_range)
                    /\ time_range.weekday + time_range.start = SaturdayWeekday
                    /\ time_range.weekday \in {SaturdayWeekday, SaturdayWeekday + 1}
                          => ContainsToday(time_range)

\* runs of whitespace replaced by one blank each
RECURSIVE Squeeze(_)
Squeeze(s) ==
    IF s = "" THEN ""
    ELSE IF IsSpace(Char(s, 1))
         THEN " " \o Squeeze(SubSeq(s, 1 + WsRun(s, 1), Len(s)))
         ELSE Char(s, 1) \o Squeeze(SubSeq(s, 2, Len(s)))

\* the conflict-cue keywords
ConflictCues ==
    { "conflict", "conflicts", "what i have", "my event", "my events",
      "current event", "current events", "this weekend" }

\* C23: the check_conflicts flag of the intent parse_natural_language returns
\* is true iff at least one conflict-cue keyword occurs in the request,
\* whatever its case and the blanks between its words.
C23_ConflictFlagIffCue ==
    (ParsedBy("parse_natural_language") /\ intent.error = "none")
        => (intent.check_conflicts
              <=> \E cue \in ConflictCues : Contains(Squeeze(lower(query)), cue))

\* a request whose only cue is the weekend, and one with two words of
\* different cues and no cue
C23_Witness ==
    /\ ParsedBy("parse_natural_language")
    /\ \/ intent.check_conflicts /\ query = "This  weekend"
       \/ ~intent.check_conflicts /\ query = "my weekend"

\* C17: parsing never fails: for every request the parser returns an intent.
C17_ParsingNeverFails ==
    pc = "done" => intent.error = "none"

\* C18: 'find vintage markets near brooklyn this weekend' is parsed to the
\* event type 'vintage', the location 'brooklyn' and the time constraint
\* this weekend.
C18_WeekendScenario ==
    (pc = "done" /\ query = WeekendRequest)
        => /\ intent.event_type = "vintage"
           /\ intent.location = "brooklyn"
           /\ intent.time_constraint \in {"this weekend", "this_weekend"}

\* C19: "I'm at 162 East 82nd Street, no more than 30 min by train" is parsed
\* to the starting point '162 east 82nd street', at most 30 minutes of travel
\* and the transport mode 'transit'.
C19_TrainScenario ==
    (pc = "done" /\ query = TrainRequest)
        => /\ intent.starting_point = "162 east 82nd street"
           /\ intent.travel_time = Number(30) \/ intent.max_travel_time = Number(30)
           /\ intent.transport_mode = "transit"

====
